---- MODULE Spec2Model ----
(***************************************************************************)
(* QuMail web client: the hybrid key exchange simulation of                *)
(* services/quantumService.js and the WebSocket chat channel of            *)
(* services/chatService.js (with its owner, the ChatInterface component).  *)
(*                                                                         *)
(* JavaScript strings are modelled as sequences of character codes, so     *)
(* that hashing, hex formatting and base64 encoding are computed as the    *)
(* code computes them.                                                     *)
(***************************************************************************)
EXTENDS Integers, Sequences, FiniteSets, Bags, TLC

\* ------------------------------------------------------------------------
\* Bounds of the model
\* ------------------------------------------------------------------------

\* number of distinct values the random source yields for one byte array
\* (crypto.getRandomValues fills 32 or 2400 bytes; the model keeps one byte
\* of each array)
MaxRandom == 2

\* connections in progress at the same time: WebSocket objects that are not
\* closed, and pending reconnect timers (each will create one)
MaxSockets == 2

\* calls started from the call screen, and seconds counted by the call timer
MaxCalls == 2

MaxTimer == 2

\* ------------------------------------------------------------------------
\* quantumService.js : string helpers
\* ------------------------------------------------------------------------

Min(a, b) == IF a < b THEN a ELSE b

\* the byte arrays crypto.getRandomValues may produce in the model
RandomArrays == { << ((i - 1) * 85) % 256 >> : i \in 1..MaxRandom }

\* String literals of quantumService.js, as character codes
LblKyberPub == <<81, 117, 77, 97, 105, 108, 45, 75, 121, 98, 101, 114, 45, 80, 117, 98, 75, 101, 121, 45, 68, 101, 114, 105, 118, 97, 116, 105, 111, 110>>
LblX25519 == <<88, 50, 53, 53, 49, 57, 45, 83, 104, 97, 114, 101, 100, 83, 101, 99, 114, 101, 116>>
LblKyberSS == <<75, 121, 98, 101, 114, 45, 83, 104, 97, 114, 101, 100, 83, 101, 99, 114, 101, 116, 45, 68, 101, 114, 105, 118, 97, 116, 105, 111, 110>>
LblKyberCt == <<75, 121, 98, 101, 114, 45, 67, 105, 112, 104, 101, 114, 116, 101, 120, 116>>
LblKyberTag == <<75, 121, 98, 101, 114, 45, 65, 117, 116, 104, 84, 97, 103>>
LblSalt == <<81, 117, 77, 97, 105, 108, 45, 72, 121, 98, 114, 105, 100, 45, 83, 101, 115, 115, 105, 111, 110, 45, 75, 101, 121, 45, 118, 49>>

\* the base64 alphabet used by btoa, and the hex digits of toString(16)
B64 == <<65, 66, 67, 68, 69, 70, 71, 72, 73, 74, 75, 76, 77, 78, 79, 80, 81, 82, 83, 84, 85, 86, 87, 88, 89, 90, 97, 98, 99, 100, 101, 102, 103, 104, 105, 106, 107, 108, 109, 110, 111, 112, 113, 114, 115, 116, 117, 118, 119, 120, 121, 122, 48, 49, 50, 51, 52, 53, 54, 55, 56, 57, 43, 47>>
HexDigits == <<48, 49, 50, 51, 52, 53, 54, 55, 56, 57, 97, 98, 99, 100, 101, 102>>

\* String.prototype.substring(0, n)
substring(s, n) == SubSeq(s, 1, Min(n, Len(s)))

\* String.prototype.padStart(n, '0')
padStart(s, n) == [i \in 1..(IF Len(s) < n THEN n - Len(s) ELSE 0) |-> 48] \o s

\* String.prototype.repeat(4)
repeat4(s) == s \o s \o s \o s

\* btoa: base64 of a string of byte-valued characters, '=' padded
RECURSIVE btoa(_)
btoa(s) ==
    IF Len(s) = 0 THEN <<>>
    ELSE IF Len(s) = 1 THEN
        << B64[(s[1] \div 4) + 1], B64[((s[1] % 4) * 16) + 1], 61, 61 >>
    ELSE IF Len(s) = 2 THEN
        << B64[(s[1] \div 4) + 1],
           B64[((s[1] % 4) * 16 + (s[2] \div 16)) + 1],
           B64[((s[2] % 16) * 4) + 1], 61 >>
    ELSE
        << B64[(s[1] \div 4) + 1],
           B64[((s[1] % 4) * 16 + (s[2] \div 16)) + 1],
           B64[((s[2] % 16) * 4 + (s[3] \div 64)) + 1],
           B64[(s[3] % 64) + 1] >> \o btoa(SubSeq(s, 4, Len(s)))

\* ------------------------------------------------------------------------
\* quantumService.js : _simpleHash
\* A 32-bit integer is kept as <<hi, lo>>, its two 16-bit halves in two's
\* complement, so that no intermediate value leaves the integer range.
\* ------------------------------------------------------------------------

\* hash << 5
Shl5(h) == << (h[1] * 32 + (h[2] * 32) \div 65536) % 65536, (h[2] * 32) % 65536 >>

\* a - b, 32-bit wrap
Sub32(a, b) ==
    LET lo == a[2] - b[2]
        hi == a[1] - b[1] - (IF lo < 0 THEN 1 ELSE 0)
    IN  << hi % 65536, lo % 65536 >>

\* a + c for a character code c, 32-bit wrap
AddChar32(a, c) ==
    LET lo == a[2] + c
    IN  << (a[1] + lo \div 65536) % 65536, lo % 65536 >>

\* one round of the loop: hash = ((hash << 5) - hash) + char; hash = hash & hash
HashStep(h, c) == AddChar32(Sub32(Shl5(h), h), c)

\* for (let i = 0; i < input.length; i++), run over input[lo..hi] from hash h
\* (split in halves to keep the evaluation shallow)
RECURSIVE HashLoop(_, _, _, _)
HashLoop(h, s, lo, hi) ==
    IF lo > hi THEN h
    ELSE IF lo = hi THEN HashStep(h, s[lo])
    ELSE LET mid == (lo + hi) \div 2
             left == HashLoop(h, s, lo, mid)
         IN  IF left[1] >= 0 THEN HashLoop(left, s, mid + 1, hi) ELSE left

\* hex digits of a magnitude 0 .. 65535, exactly four of them
Hex4(n) == << HexDigits[(n \div 4096) + 1], HexDigits[((n \div 256) % 16) + 1],
              HexDigits[((n \div 16) % 16) + 1], HexDigits[(n % 16) + 1] >>

RECURSIVE StripZeros(_)
StripZeros(s) == IF Len(s) > 1 /\ s[1] = 48 THEN StripZeros(Tail(s)) ELSE s

\* Number.prototype.toString(16) of a signed 32-bit integer
toString16(h) ==
    IF h[1] >= 32768
    THEN LET lo == (65536 - h[2]) % 65536
             hi == (65535 - h[1]) + (IF h[2] = 0 THEN 1 ELSE 0)
         IN  <<45>> \o StripZeros(Hex4(hi) \o Hex4(lo))
    ELSE StripZeros(Hex4(h[1]) \o Hex4(h[2]))

\* mutant: the hash ignores its input
simpleHashConst(input) == repeat4(padStart(toString16(<<0, 0>>), 8))

_simpleHash(input) == repeat4(padStart(toString16(HashLoop(<<0, 0>>, input, 1, Len(input))), 8))

\* ------------------------------------------------------------------------
\* quantumService.js : key generation, encapsulation, decapsulation
\* (keypair_id, encapsulation_id, timestamps and the two metadata strings
\* are labels that no computation reads; they are left out of the records)
\* ------------------------------------------------------------------------

\* JavaScript null / undefined, for a variable that otherwise holds a record
None == [null |-> TRUE]

\* _generateRandomBase64(byteLength): the values it may return
RandomBase64(byteLength) ==
    { btoa(SubSeq(b, 1, Min(byteLength, Len(b)))) : b \in RandomArrays }

\* _generateX25519KeyPair: two independent random strings
X25519KeyPairs ==
    { [privateKey |-> k, publicKey |-> q] : k \in RandomBase64(32), q \in RandomBase64(32) }

_deriveKyberPublicKey(secretKey) ==
    substring(btoa(_simpleHash(secretKey \o LblKyberPub)), 1184)

\* _generateKyberKeyPair (its unused 'validation' field is not kept)
KyberKeyPairs ==
    { [secretKey |-> k, publicKey |-> _deriveKyberPublicKey(k)] : k \in RandomBase64(2400) }

\* generateHybridKeyPair, from the two component pairs it generated
generateHybridKeyPair(x25519KeyData, kyberKeyData) ==
    [ x25519_public_key  |-> x25519KeyData.publicKey,
      x25519_private_key |-> x25519KeyData.privateKey,
      kyber_public_key   |-> kyberKeyData.publicKey,
      kyber_secret_key   |-> kyberKeyData.secretKey ]

\* mutant: both sides hash the two halves in one canonical order
PerformX25519ECDHSymmetric(ourPrivate, remotePublic) ==
    _simpleHash(LblX25519)

_performX25519ECDH(ourPrivate, remotePublic) ==
    _simpleHash((ourPrivate \o remotePublic) \o LblX25519)

_kyberEncapsulate(remoteKyberPublic) ==
    LET sharedSecret == _simpleHash(remoteKyberPublic \o LblKyberSS)
        ciphertext   == _simpleHash(sharedSecret \o LblKyberCt)
        authTag      == substring(_simpleHash(ciphertext \o LblKyberTag), 32)
    IN  [ sharedSecret |-> sharedSecret,
          ciphertext   |-> btoa(ciphertext),
          authTag      |-> btoa(authTag) ]

\* the ciphertext and the auth tag are parameters the body never reads
_kyberDecapsulate(ciphertext, authTag, ourKyberSecret) ==
    LET ourPublicKey == _deriveKyberPublicKey(ourKyberSecret)
    IN  _simpleHash(ourPublicKey \o LblKyberSS)

_deriveHybridSessionKey(kyberSharedSecret, x25519SharedSecret) ==
    _simpleHash((kyberSharedSecret \o x25519SharedSecret) \o LblSalt)

\* encapsulateHybridKey, with the ephemeral pair it generated
encapsulateHybridKey(remoteHybridPublicKey, ourX25519Keys) ==
    LET remoteX25519Public == remoteHybridPublicKey.x25519_public_key
        remoteKyberPublic  == remoteHybridPublicKey.kyber_public_key
        x25519SharedSecret == _performX25519ECDH(ourX25519Keys.privateKey, remoteX25519Public)
        kyberResult        == _kyberEncapsulate(remoteKyberPublic)
        finalSessionKey    == _deriveHybridSessionKey(kyberResult.sharedSecret, x25519SharedSecret)
    IN  [ x25519_public_key |-> ourX25519Keys.publicKey,
          kyber_ciphertext  |-> kyberResult.ciphertext,
          kyber_auth_tag    |-> kyberResult.authTag,
          session_key       |-> finalSessionKey ]

decapsulateHybridKey(encapsulatedData, ourHybridKeyPair) ==
    LET ourX25519Private   == ourHybridKeyPair.x25519_private_key
        ourKyberSecret     == ourHybridKeyPair.kyber_secret_key
        remoteX25519Public == encapsulatedData.x25519_public_key
        kyberCiphertext    == encapsulatedData.kyber_ciphertext
        kyberAuthTag       == encapsulatedData.kyber_auth_tag
        x25519SharedSecret == _performX25519ECDH(ourX25519Private, remoteX25519Public)
        kyberSharedSecret  == _kyberDecapsulate(kyberCiphertext, kyberAuthTag, ourKyberSecret)
    IN  _deriveHybridSessionKey(kyberSharedSecret, x25519SharedSecret)

\* the try/catch of encapsulateHybridKey: reading a field of a null argument
\* throws, the catch rethrows 'Key encapsulation failed'; nothing else in
\* the body throws on string or undefined fields
encapsulateOutcome(remoteHybridPublicKey, ourX25519Keys) ==
    IF remoteHybridPublicKey = None
    THEN [ error |-> "Key encapsulation failed" ]
    ELSE [ value |-> encapsulateHybridKey(remoteHybridPublicKey, ourX25519Keys) ]

\* the try/catch of decapsulateHybridKey, likewise
decapsulateOutcome(encapsulatedData, ourHybridKeyPair) ==
    IF encapsulatedData = None \/ ourHybridKeyPair = None
    THEN [ error |-> "Key decapsulation failed" ]
    ELSE [ key |-> decapsulateHybridKey(encapsulatedData, ourHybridKeyPair) ]

\* String(undefined), what a missing field becomes in a concatenation
Undefined == <<117, 110, 100, 101, 102, 105, 110, 101, 100>>

\* btoa of 32 zero bytes: an all-zero X25519 public key
AllZeroKey == btoa([ i \in 1..32 |-> 0 ])

\* malformed remote public keys made from valid ones: the classical key
\* all-zero, the classical key of the wrong length (empty), the PQ key missing
MalformedPublicKeys(valid) ==
    { [ kind |-> "all-zero classical key",
        keys |-> [valid EXCEPT !.x25519_public_key = AllZeroKey] ],
      [ kind |-> "empty classical key",
        keys |-> [valid EXCEPT !.x25519_public_key = << >>] ],
      [ kind |-> "missing PQ key",
        keys |-> [valid EXCEPT !.kyber_public_key = Undefined] ] }

\* malformed encapsulated data made from a valid result: the PQ ciphertext
\* truncated to zero length, the auth tag replaced by one that does not
\* belong to the ciphertext
MalformedEncapsulations(valid) ==
    { [ kind |-> "empty ciphertext",
        data |-> [valid EXCEPT !.kyber_ciphertext = << >>] ],
      [ kind |-> "auth tag mismatch",
        data |-> [valid EXCEPT !.kyber_auth_tag = btoa(LblKyberTag)] ] }

\* the public halves of a hybrid key pair, as handed to the remote side
PublicKeysOf(kp) ==
    [ x25519_public_key |-> kp.x25519_public_key,
      kyber_public_key  |-> kp.kyber_public_key ]

\* mutant: the classical private key is sent in place of the public one
PublicKeyBodyPrivate(hybridKeys) ==
    [ pqc_pub_key     |-> hybridKeys.kyber_public_key,
      classic_pub_key |-> hybridKeys.x25519_private_key,
      signature       |-> "placeholder_signature" ]

\* sendHybridPublicKeys: the JSON body of PUT /calls/{callId}/public_key
\* (hybridKeys.signature is never set, so the placeholder is sent)
PublicKeyBody(hybridKeys) ==
    [ pqc_pub_key     |-> hybridKeys.kyber_public_key,
      classic_pub_key |-> hybridKeys.x25519_public_key,
      signature       |-> "placeholder_signature" ]

\* mutant: the session key travels in the key share field
CiphertextBodyWithKey(encapsulatedData) ==
    [ pqc_ciphertext    |-> encapsulatedData.kyber_ciphertext,
      classic_key_share |-> encapsulatedData.session_key,
      signature         |-> "placeholder_signature" ]

\* sendHybridCiphertext: the JSON body of PUT /calls/{callId}/ciphertext
CiphertextBody(encapsulatedData) ==
    [ pqc_ciphertext    |-> encapsulatedData.kyber_ciphertext,
      classic_key_share |-> encapsulatedData.x25519_public_key,
      signature         |-> "placeholder_signature" ]

\* ------------------------------------------------------------------------
\* HybridSessionNegotiator: the CallSession state machine (the signalling
\* backend that runs it is outside the client sources; its transitions
\* follow the design document, its primitives and message bodies are the
\* client's)
\* ------------------------------------------------------------------------

NewSession(role) ==
    [ role              |-> role,
      state             |-> "INITIATED",
      ourKeyPair        |-> None,
      remotePublicKeys  |-> None,
      derivedSessionKey |-> None ]

\* the remote public keys named by a public-key message body
RemoteKeysOf(body) ==
    [ x25519_public_key |-> body.classic_pub_key,
      kyber_public_key  |-> body.pqc_pub_key ]

\* the encapsulated data named by a ciphertext message body (the auth tag
\* is not part of the body)
EncapsulatedDataOf(body) ==
    [ x25519_public_key |-> body.classic_key_share,
      kyber_ciphertext  |-> body.pqc_ciphertext,
      kyber_auth_tag    |-> None ]

\* ------------------------------------------------------------------------
\* chatService.js : constants and helpers of ChatService
\* ------------------------------------------------------------------------

maxReconnectAttempts == 5

\* this.reconnectDelay of the constructor, restored by onopen
BaseReconnectDelay == 1000

\* ceiling of the exponential backoff
MaxReconnectDelay == 30000

\* the close code disconnect() passes to close(), and onclose compares with
NormalClosure == 1000

\* the close code of a connection that failed or was lost (no Close frame)
AbnormalClosure == 1006

\* close codes of a closure the client did not ask for: normal closure or
\* going away sent by the server, or a lost connection
InvoluntaryCloseCodes == {1000, 1001, 1006}

\* the message types the ChatInterface registers handlers for, and the
\* wildcard
MessageTypes == {"encrypted_chat_message", "message_sent", "connection_error", "all"}

\* null, as the value of this.websocket
NoSocket ==
    [ readyState |-> "NONE", promise |-> "none", timeout |-> FALSE,
      origin |-> "none", closeCode |-> 0 ]

\* a closed socket
ClosedSocket == [NoSocket EXCEPT !.readyState = "CLOSED"]

\* new WebSocket(wsUrl) inside connect(): the socket is CONNECTING, the
\* promise of the call is pending, the 10 s timeout timer is set
NewSocket(origin) ==
    [ readyState |-> "CONNECTING", promise |-> "pending", timeout |-> TRUE,
      origin |-> origin, closeCode |-> 0 ]

\* mutant: the backoff starts over once it would pass the ceiling
NextReconnectDelayWrapping(delay) ==
    IF delay * 2 > MaxReconnectDelay THEN BaseReconnectDelay ELSE delay * 2

\* mutant: the backoff doubles without a ceiling
NextReconnectDelayNoCeiling(delay) == delay * 2

\* mutant: the backoff grows by the base delay instead of doubling
NextReconnectDelayLinear(delay) == Min(delay + BaseReconnectDelay, MaxReconnectDelay)

\* attemptReconnect: this.reconnectDelay = Math.min(this.reconnectDelay * 2, 30000)
NextReconnectDelay(delay) == Min(delay * 2, MaxReconnectDelay)

\* onclose: event.code !== 1000 && this.reconnectAttempts < this.maxReconnectAttempts
ShouldReconnect(code, attempts) ==
    code # NormalClosure /\ attempts < maxReconnectAttempts

\* mutant: the budget test of the reconnect catch is off by one
BudgetExhaustedStrict(attempts) == attempts > maxReconnectAttempts

\* catch of attemptReconnect: this.reconnectAttempts >= this.maxReconnectAttempts
BudgetExhausted(attempts) == attempts >= maxReconnectAttempts

\* mutant: sendMessage tests the socket reference only
SendAllowedNoFlag(connected, ws) == ws # NoSocket

\* sendMessage passes its guard: !( !this.isConnected || !this.websocket )
SendAllowed(connected, ws) == connected /\ ws # NoSocket

\* mutant: a table that keeps every registration instead of replacing
MapSetAppend(handlers, type, handler) ==
    Append(handlers, [type |-> type, handler |-> handler])

\* Map.prototype.set on the handler table: an existing key keeps its place
MapSet(handlers, type, handler) ==
    IF \E i \in 1..Len(handlers) : handlers[i].type = type
    THEN [ i \in 1..Len(handlers) |->
             IF handlers[i].type = type
             THEN [type |-> type, handler |-> handler] ELSE handlers[i] ]
    ELSE Append(handlers, [type |-> type, handler |-> handler])

\* Map.prototype.delete on the handler table
MapDelete(handlers, type) ==
    LET Keep(e) == e.type # type IN SelectSeq(handlers, Keep)

\* mutant: the wildcard key is ignored
MatchesExact(type, frame) == frame = type

\* handleMessage: message.type === type || type === 'all'
Matches(type, frame) == frame = type \/ type = "all"

\* the callbacks of the ChatInterface component
AppHandlers == {"handleIncomingMessage", "handleMessageSent", "handleConnectionError"}

\* callbacks another client of the exported service passes to onMessage
ClientHandlers == {"auditHandler", "onceHandler"}

\* keys the clients register under, and the types of inbound frames
DispatchKeys == {"encrypted_chat_message", "message_sent", "all"}

\* what a callback does when invoked: it returns, it throws, or it calls
\* offMessage or onMessage of the service before it returns
Effect(kind, type, handler) == [kind |-> kind, type |-> type, handler |-> handler]

Returns == Effect("return", "none", "none")

ClientEffects ==
    { Returns, Effect("throw", "none", "none"),
      Effect("on", "all", "auditHandler") }
        \cup { Effect("off", k, "none") : k \in {"encrypted_chat_message", "all"} }

\* the callbacks of App.js only set component state and return
Behaviours ==
    { [ h \in AppHandlers \cup ClientHandlers |->
            IF h \in AppHandlers THEN Returns ELSE b[h] ] :
        b \in [ClientHandlers -> ClientEffects] }

\* the table after the callback acted on it
ApplyEffect(handlers, eff) ==
    CASE eff.kind = "off" -> MapDelete(handlers, eff.type)
      [] eff.kind = "on" -> MapSet(handlers, eff.type, eff.handler)
      [] OTHER -> handlers

\* position of a key in the table, 0 when absent
IndexOf(handlers, type) ==
    IF \E i \in 1..Len(handlers) : handlers[i].type = type
    THEN CHOOSE i \in 1..Len(handlers) : handlers[i].type = type
    ELSE 0

\* Map.prototype.forEach walks the live entry list: the entry it visits next
\* after the callback at position i deleted (or not) an entry at or before i
NextEntry(handlers, i, eff) ==
    IF eff.kind = "off" /\ IndexOf(handlers, eff.type) \in 1..i THEN i ELSE i + 1

\* mutant: a throwing handler ends the iteration
ResumeAfterPropagating(eff, next, end) == IF eff.kind = "throw" THEN end ELSE next

\* try { handler(message) } catch (error) { console.error(...) }: the
\* iteration resumes at the next entry whether or not the handler threw
ResumeAfter(eff, next, end) == next

\* handleMessage: this.messageHandlers.forEach((handler, type) => ...)
RECURSIVE forEach(_, _, _, _, _)
forEach(handlers, i, frame, behaviour, acc) ==
    IF i > Len(handlers)
    THEN [ table |-> handlers, invoked |-> acc.invoked, caught |-> acc.caught,
           mutated |-> acc.mutated ]
    ELSE IF Matches(handlers[i].type, frame)
         THEN LET eff  == behaviour[handlers[i].handler]
                  new  == ApplyEffect(handlers, eff)
                  next == ResumeAfter(eff, NextEntry(handlers, i, eff), Len(new) + 1)
              IN  forEach(new, next, frame, behaviour,
                    [ invoked |-> Append(acc.invoked, handlers[i]),
                      caught  |-> IF eff.kind = "throw"
                                  THEN Append(acc.caught, handlers[i])
                                  ELSE acc.caught,
                      mutated |-> acc.mutated \/ eff.kind \in {"on", "off"} ])
         ELSE forEach(handlers, i + 1, frame, behaviour, acc)

handleMessage(handlers, frame, behaviour) ==
    forEach(handlers, 1, frame, behaviour,
            [ invoked |-> << >>, caught |-> << >>, mutated |-> FALSE ])

\* notifyConnectionError: the handlers it invokes, in table order, each
\* inside its own try/catch
ConnectionErrorHandlers(handlers) ==
    LET Notified(e) == e.type = "connection_error" \/ e.type = "all"
    IN  SelectSeq(handlers, Notified)

\* initializeChat after its await: the three registrations of the component
RegisterChatHandlers(handlers) ==
    MapSet(MapSet(MapSet(handlers,
        "encrypted_chat_message", "handleIncomingMessage"),
        "message_sent", "handleMessageSent"),
        "connection_error", "handleConnectionError")

\* what the last step did (a record of the step, not state of the program)
Event(op) ==
    [ op |-> op, origin |-> "none", code |-> 0, voluntary |-> FALSE,
      result |-> "none", handed |-> FALSE, sent |-> FALSE, rejected |-> FALSE,
      reconnect |-> FALSE, stale |-> FALSE, notified |-> << >>,
      type |-> "none", handler |-> "none", frame |-> "none", table |-> << >>,
      invoked |-> << >>, caught |-> << >>, mutated |-> FALSE,
      before |-> << >>, previous |-> << >> ]

\* ------------------------------------------------------------------------
\* State
\* ------------------------------------------------------------------------

VARIABLES
    \* one key exchange, driven through quantumService directly
    keyPair,        \* B = generateHybridKeyPair(), or None
    encap,          \* E = encapsulateHybridKey(public keys of B), or None
    encap2,         \* a second encapsulateHybridKey(public keys of B), or None
    decapKey,       \* [key |-> decapsulateHybridKey(E, B)], or None
    requests,       \* the bodies of the PUT requests sent so far, in order
    encapBad,       \* kind and outcome of encapsulateHybridKey on malformed keys, or None
    decapBad        \* kind and outcome of decapsulateHybridKey on malformed data, or None

kexVars == << keyPair, encap, encap2, decapKey, requests, encapBad, decapBad >>

VARIABLES
    \* one call between an initiator and a responder
    iSession,       \* the initiator's CallSession, or None
    rSession,       \* the responder's CallSession, or None
    signal          \* handshake messages in flight, in sending order

callVars == << iSession, rSession, signal >>

VARIABLES
    \* the ChatService singleton
    websocket,          \* this.websocket: the socket it references, or NoSocket
    isConnected,        \* this.isConnected
    messageHandlers,    \* this.messageHandlers, in insertion order
    reconnectAttempts,  \* this.reconnectAttempts
    reconnectDelay,     \* this.reconnectDelay
    \* its environment
    orphans,            \* the other sockets connect() created that are not closed
    timers,             \* pending reconnect timers of attemptReconnect, each with
                        \* stale: disconnect() was called since it was set
    mounted,            \* the ChatInterface effect has run and not been cleaned up
    \* bookkeeping for the properties
    scheduled,          \* delays of the reconnects scheduled since the last open
    event               \* what the last step did

serviceVars == << websocket, isConnected, messageHandlers, reconnectAttempts, reconnectDelay >>

chatVars == << serviceVars, orphans, timers, mounted, scheduled, event >>

VARIABLES
    \* the state of the CallInterface component
    callHistory,    \* useState([]), then the demo history of the mount effect
    activeCall,     \* useState(null)
    callTimer,      \* useState(0)
    isMuted,        \* useState(false)
    isVideoOn,      \* useState(true)
    uiEvent         \* what the last step did, and the state it started from

uiVars == << callHistory, activeCall, callTimer, isMuted, isVideoOn, uiEvent >>

vars == << kexVars, callVars, chatVars, uiVars >>

\* ------------------------------------------------------------------------
\* The key exchange round trip
\* ------------------------------------------------------------------------

KexInit ==
    /\ keyPair = None
    /\ encap = None
    /\ encap2 = None
    /\ decapKey = None
    /\ requests = << >>
    /\ encapBad = None
    /\ decapBad = None

GenerateHybridKeyPair ==
    /\ keyPair = None
    /\ \E x \in X25519KeyPairs, k \in KyberKeyPairs :
           keyPair' = generateHybridKeyPair(x, k)
    /\ UNCHANGED << encap, encap2, decapKey, requests, encapBad, decapBad, callVars, chatVars, uiVars >>

EncapsulateHybridKey ==
    /\ keyPair # None
    /\ encap = None
    /\ \E e \in X25519KeyPairs :
           encap' = encapsulateHybridKey(PublicKeysOf(keyPair), e)
    /\ UNCHANGED << keyPair, encap2, decapKey, requests, encapBad, decapBad, callVars, chatVars, uiVars >>

\* encapsulateHybridKey called once more with the same remote public keys
EncapsulateAgain ==
    /\ keyPair # None
    /\ encap # None
    /\ encap2 = None
    /\ \E e \in X25519KeyPairs :
           encap2' = encapsulateHybridKey(PublicKeysOf(keyPair), e)
    /\ UNCHANGED << keyPair, encap, decapKey, requests, encapBad, decapBad, callVars, chatVars, uiVars >>

DecapsulateHybridKey ==
    /\ keyPair # None
    /\ encap # None
    /\ decapKey = None
    /\ decapKey' = [key |-> decapsulateHybridKey(encap, keyPair)]
    /\ UNCHANGED << keyPair, encap, encap2, requests, encapBad, decapBad, callVars, chatVars, uiVars >>

\* whether a request of that type has been sent
Sent(type) == \E i \in 1..Len(requests) : requests[i].type = type

\* sendHybridPublicKeys(callId, B): PUT /calls/{callId}/public_key
SendHybridPublicKeys ==
    /\ keyPair # None
    /\ ~Sent("public_key")
    /\ requests' = Append(requests, [type |-> "public_key", body |-> PublicKeyBody(keyPair)])
    /\ UNCHANGED << keyPair, encap, encap2, decapKey, encapBad, decapBad, callVars, chatVars, uiVars >>

\* sendHybridCiphertext(callId, E): PUT /calls/{callId}/ciphertext
SendHybridCiphertext ==
    /\ encap # None
    /\ ~Sent("ciphertext")
    /\ requests' = Append(requests, [type |-> "ciphertext", body |-> CiphertextBody(encap)])
    /\ UNCHANGED << keyPair, encap, encap2, decapKey, encapBad, decapBad, callVars, chatVars, uiVars >>

\* encapsulateHybridKey called with malformed remote public keys
EncapsulateMalformed ==
    /\ keyPair # None
    /\ encapBad = None
    /\ \E m \in MalformedPublicKeys(PublicKeysOf(keyPair)), e \in X25519KeyPairs :
           encapBad' = [ kind |-> m.kind, outcome |-> encapsulateOutcome(m.keys, e) ]
    /\ UNCHANGED << keyPair, encap, encap2, decapKey, requests, decapBad, callVars, chatVars, uiVars >>

\* decapsulateHybridKey called with malformed encapsulated data
DecapsulateMalformed ==
    /\ keyPair # None
    /\ encap # None
    /\ decapBad = None
    /\ \E m \in MalformedEncapsulations(encap) :
           decapBad' = [ kind |-> m.kind, outcome |-> decapsulateOutcome(m.data, keyPair) ]
    /\ UNCHANGED << keyPair, encap, encap2, decapKey, requests, encapBad, callVars, chatVars, uiVars >>

\* the primitives driven with malformed input
MalformedNext ==
    \/ GenerateHybridKeyPair
    \/ EncapsulateHybridKey
    \/ EncapsulateMalformed
    \/ DecapsulateMalformed

KexNext ==
    \/ GenerateHybridKeyPair
    \/ EncapsulateHybridKey
    \/ EncapsulateAgain
    \/ DecapsulateHybridKey
    \/ SendHybridPublicKeys
    \/ SendHybridCiphertext

\* ------------------------------------------------------------------------
\* The handshake of one call, messages delivered in order
\* ------------------------------------------------------------------------

CallInit ==
    /\ iSession = None
    /\ rSession = None
    /\ signal = << >>

\* POST /calls/initiate: the call is allocated, state INITIATED
InitiateCall ==
    /\ iSession = None
    /\ iSession' = NewSession("initiator")
    /\ UNCHANGED << rSession, signal, kexVars, chatVars, uiVars >>

\* step 1: the initiator creates its key pair and sends the public halves
InitiatorSendKeys ==
    /\ iSession # None
    /\ iSession.state = "INITIATED"
    /\ \E x \in X25519KeyPairs, k \in KyberKeyPairs :
         LET kp == generateHybridKeyPair(x, k) IN
           /\ iSession' = [iSession EXCEPT !.ourKeyPair = kp,
                                           !.state = "AWAITING_PUBLIC_KEY"]
           /\ signal' = Append(signal, [to |-> "responder", type |-> "public_key",
                                        body |-> PublicKeyBody(kp)])
    /\ UNCHANGED << rSession, kexVars, chatVars, uiVars >>

\* step 2: the responder, notified of the call with the initiator's keys,
\* generates its own pair, replies with the public halves
ResponderSendKeys ==
    /\ rSession = None
    /\ signal # << >>
    /\ Head(signal).to = "responder"
    /\ Head(signal).type = "public_key"
    /\ \E x \in X25519KeyPairs, k \in KyberKeyPairs :
         LET kp == generateHybridKeyPair(x, k) IN
           /\ rSession' = [NewSession("responder") EXCEPT
                              !.ourKeyPair = kp,
                              !.remotePublicKeys = RemoteKeysOf(Head(signal).body),
                              !.state = "KEYS_EXCHANGED"]
           /\ signal' = Append(Tail(signal), [to |-> "initiator", type |-> "public_key",
                                              body |-> PublicKeyBody(kp)])
    /\ UNCHANGED << iSession, kexVars, chatVars, uiVars >>

\* step 3: the initiator encapsulates against the responder's public keys,
\* keeps the session key and sends the ciphertext message
InitiatorSendCiphertext ==
    /\ iSession # None
    /\ iSession.state = "AWAITING_PUBLIC_KEY"
    /\ signal # << >>
    /\ Head(signal).to = "initiator"
    /\ Head(signal).type = "public_key"
    /\ \E e \in X25519KeyPairs :
         LET remote == RemoteKeysOf(Head(signal).body)
             result == encapsulateHybridKey(remote, e)
         IN
           /\ iSession' = [iSession EXCEPT
                              !.remotePublicKeys = remote,
                              !.derivedSessionKey = [key |-> result.session_key],
                              !.state = "CIPHERTEXT_SENT"]
           /\ signal' = Append(Tail(signal), [to |-> "responder", type |-> "ciphertext",
                                              body |-> CiphertextBody(result)])
    /\ UNCHANGED << rSession, kexVars, chatVars, uiVars >>

\* step 4: the responder decapsulates with its own key pair
ResponderDecapsulate ==
    /\ rSession # None
    /\ rSession.state = "KEYS_EXCHANGED"
    /\ signal # << >>
    /\ Head(signal).to = "responder"
    /\ Head(signal).type = "ciphertext"
    /\ rSession' = [rSession EXCEPT
                       !.derivedSessionKey =
                           [key |-> decapsulateHybridKey(EncapsulatedDataOf(Head(signal).body),
                                                         rSession.ourKeyPair)],
                       !.state = "ESTABLISHED"]
    /\ signal' = Tail(signal)
    /\ UNCHANGED << iSession, kexVars, chatVars, uiVars >>

\* step 4, initiator side: the ciphertext is sent, the session is established
InitiatorEstablish ==
    /\ iSession # None
    /\ iSession.state = "CIPHERTEXT_SENT"
    /\ iSession' = [iSession EXCEPT !.state = "ESTABLISHED"]
    /\ UNCHANGED << rSession, signal, kexVars, chatVars, uiVars >>

CallNext ==
    \/ InitiateCall
    \/ InitiatorSendKeys
    \/ ResponderSendKeys
    \/ InitiatorSendCiphertext
    \/ ResponderDecapsulate
    \/ InitiatorEstablish

\* ------------------------------------------------------------------------
\* The chat channel: ChatService, its sockets and timers, and its owner
\* ------------------------------------------------------------------------

One(sock) == SetToBag({sock})

\* the sockets that can still act: the one the service references (unless
\* null or closed) and the others
Live(sock) == sock.readyState \in {"CONNECTING", "OPEN", "CLOSING"}

NumLive == (IF Live(websocket) THEN 1 ELSE 0) + BagCardinality(orphans)

\* room for one more socket or timer
HasRoom == NumLive + Len(timers) < MaxSockets

\* a socket of the model: << "current", this.websocket >> or << "orphan", socket >>
SocketRefs ==
    (IF Live(websocket) THEN { << "current", websocket >> } ELSE {})
        \cup { << "orphan", o >> : o \in BagToSet(orphans) }

\* the socket ref[2] becomes new. A closed socket can no longer act: its
\* promise is settled (resolved by onopen, or rejected by onerror or the
\* timeout), so its timeout timer, if still pending, rejects nothing and
\* notifies no one; only its readyState is kept, and only while the service
\* references it
Update(ref, new) ==
    LET kept == IF new.readyState = "CLOSED" THEN ClosedSocket ELSE new IN
    IF ref[1] = "current"
    THEN /\ websocket' = kept
         /\ orphans' = orphans
    ELSE /\ websocket' = websocket
         /\ orphans' = IF Live(new)
                       THEN (orphans (-) One(ref[2])) (+) One(new)
                       ELSE orphans (-) One(ref[2])

\* WebSocket.close(1000, ...): a socket that is still connecting fails (its
\* close event carries 1006), an open one starts the closing handshake
\* (its close event carries the code sent), a closing or closed one ignores it
Close(sock) ==
    IF sock.readyState = "CONNECTING"
    THEN [sock EXCEPT !.readyState = "CLOSING", !.closeCode = AbnormalClosure]
    ELSE IF sock.readyState = "OPEN"
    THEN [sock EXCEPT !.readyState = "CLOSING", !.closeCode = NormalClosure]
    ELSE sock

ChatInit ==
    /\ websocket = NoSocket
    /\ isConnected = FALSE
    /\ messageHandlers = << >>
    /\ reconnectAttempts = 0
    /\ reconnectDelay = BaseReconnectDelay
    /\ orphans = EmptyBag
    /\ timers = << >>
    /\ mounted = FALSE
    /\ scheduled = << >>
    /\ event = Event("init")

\* connect(userId), up to the return of the promise: this.websocket is
\* overwritten with a new socket; the socket it referenced is not closed
DoConnect(origin) ==
    /\ websocket' = NewSocket(origin)
    /\ orphans' = IF Live(websocket) THEN orphans (+) One(websocket) ELSE orphans

\* ChatInterface effect: initializeChat() awaits chatService.connect(user.email)
Connect ==
    /\ ~mounted
    /\ HasRoom
    /\ mounted' = TRUE
    /\ DoConnect("owner")
    /\ event' = Event("connect")
    /\ UNCHANGED << isConnected, messageHandlers, reconnectAttempts, reconnectDelay,
                    timers, scheduled, kexVars, callVars, uiVars >>

\* the setTimeout callback of attemptReconnect: this.connect(userId).catch(...)
ReconnectTimerFire(i) ==
    /\ i \in DOMAIN timers
    /\ timers' = [ j \in 1..(Len(timers) - 1) |-> IF j < i THEN timers[j] ELSE timers[j + 1] ]
    /\ DoConnect("reconnect")
    /\ event' = [Event("reconnect_timer") EXCEPT !.stale = timers[i].stale]
    /\ UNCHANGED << isConnected, messageHandlers, reconnectAttempts, reconnectDelay,
                    mounted, scheduled, kexVars, callVars, uiVars >>

\* websocket.onopen of socket ref
SocketOpen(ref) ==
    /\ ref \in SocketRefs
    /\ ref[2].readyState = "CONNECTING"
    /\ isConnected' = TRUE
    /\ reconnectAttempts' = 0
    /\ reconnectDelay' = BaseReconnectDelay
    /\ scheduled' = << >>
    /\ Update(ref, [ref[2] EXCEPT !.readyState = "OPEN",
                                  !.promise = IF @ = "pending" THEN "resolved" ELSE @])
    \* resolve(): initializeChat resumes and registers its handlers
    /\ messageHandlers' =
           IF ref[2].promise = "pending" /\ ref[2].origin = "owner"
           THEN RegisterChatHandlers(messageHandlers) ELSE messageHandlers
    /\ event' = [Event("open") EXCEPT !.origin = ref[2].origin,
                                      !.result = IF ref[2].promise = "pending"
                                                 THEN "resolved" ELSE ref[2].promise]
    /\ UNCHANGED << timers, mounted, kexVars, callVars, uiVars >>

\* reject(...) of the promise of a socket: whether it settles the promise,
\* and whether the catch of attemptReconnect then calls notifyConnectionError
Rejects(sock) == sock.promise = "pending"

NotifiesOnReject(sock) ==
    /\ Rejects(sock)
    /\ sock.origin = "reconnect"
    /\ BudgetExhausted(reconnectAttempts)

\* attemptReconnect(userId)
AttemptReconnect ==
    /\ reconnectAttempts' = reconnectAttempts + 1
    /\ timers' = Append(timers, [stale |-> FALSE])
    /\ scheduled' = Append(scheduled, reconnectDelay)
    /\ reconnectDelay' = NextReconnectDelay(reconnectDelay)

\* websocket.onclose with event.code = code
OnClose(code) ==
    /\ isConnected' = FALSE
    /\ IF ShouldReconnect(code, reconnectAttempts)
       THEN AttemptReconnect
       ELSE UNCHANGED << reconnectAttempts, timers, scheduled, reconnectDelay >>

\* a connection that never opened ends: the error event (onerror rejects the
\* promise), then the close event with code 1006; the socket was either
\* refused or lost while connecting, or closed by disconnect() before it opened
SocketFail(ref) ==
    /\ ref \in SocketRefs
    /\ \/ ref[2].readyState = "CONNECTING"
       \/ ref[2].readyState = "CLOSING" /\ ref[2].closeCode = AbnormalClosure
    /\ Update(ref, [ref[2] EXCEPT !.readyState = "CLOSED"])
    /\ OnClose(AbnormalClosure)
    /\ event' = [Event("close") EXCEPT
                    !.origin = ref[2].origin,
                    !.code = AbnormalClosure,
                    !.voluntary = (ref[2].readyState = "CLOSING"),
                    !.rejected = Rejects(ref[2]),
                    !.notified = IF NotifiesOnReject(ref[2])
                                 THEN ConnectionErrorHandlers(messageHandlers) ELSE << >>,
                    !.reconnect = ShouldReconnect(AbnormalClosure, reconnectAttempts)]
    /\ UNCHANGED << messageHandlers, mounted, kexVars, callVars, uiVars >>

\* the close event of a socket that had opened: the server closed it or the
\* connection was lost (any involuntary code), or the closing handshake that
\* disconnect() started completed (code 1000)
SocketClose(ref, code) ==
    /\ ref \in SocketRefs
    /\ \/ ref[2].readyState = "OPEN" /\ code \in InvoluntaryCloseCodes
       \/ ref[2].readyState = "CLOSING" /\ ref[2].closeCode = NormalClosure
                                        /\ code = NormalClosure
    /\ Update(ref, [ref[2] EXCEPT !.readyState = "CLOSED"])
    /\ OnClose(code)
    /\ event' = [Event("close") EXCEPT
                    !.origin = ref[2].origin,
                    !.code = code,
                    !.voluntary = (ref[2].readyState = "CLOSING"),
                    !.reconnect = ShouldReconnect(code, reconnectAttempts)]
    /\ UNCHANGED << messageHandlers, mounted, kexVars, callVars, uiVars >>

\* the 10 s setTimeout callback of connect(): if (!this.isConnected) reject(...)
ConnectTimeout(ref) ==
    /\ ref \in SocketRefs
    /\ ref[2].timeout
    /\ Update(ref, [ref[2] EXCEPT !.timeout = FALSE,
                                  !.promise = IF ~isConnected /\ @ = "pending"
                                              THEN "rejected" ELSE @])
    /\ event' = [Event("timeout") EXCEPT
                    !.origin = ref[2].origin,
                    !.rejected = (~isConnected /\ Rejects(ref[2])),
                    !.notified = IF ~isConnected /\ NotifiesOnReject(ref[2])
                                 THEN ConnectionErrorHandlers(messageHandlers) ELSE << >>]
    /\ UNCHANGED << isConnected, messageHandlers, reconnectAttempts, reconnectDelay,
                    timers, mounted, scheduled, kexVars, callVars, uiVars >>

\* cleanup of the ChatInterface effect: chatService.disconnect()
Disconnect ==
    /\ mounted
    /\ mounted' = FALSE
    /\ IF websocket # NoSocket
       THEN /\ orphans' = IF Live(Close(websocket))
                          THEN orphans (+) One(Close(websocket)) ELSE orphans
            /\ websocket' = NoSocket
            /\ isConnected' = FALSE
       ELSE UNCHANGED << orphans, websocket, isConnected >>
    \* the timers are left as they are; those pending now are marked
    /\ timers' = [ i \in DOMAIN timers |-> [timers[i] EXCEPT !.stale = TRUE] ]
    /\ event' = [Event("disconnect") EXCEPT !.handed = (websocket # NoSocket)]
    /\ UNCHANGED << messageHandlers, reconnectAttempts, reconnectDelay, scheduled,
                    kexVars, callVars, uiVars >>

\* sendMessage(contactId, message, securityLevel), called by the component
SendMessage ==
    /\ mounted
    /\ event' =
         IF ~SendAllowed(isConnected, websocket)
         THEN [Event("sendMessage") EXCEPT !.result = "WebSocket not connected"]
         ELSE \* websocket.send(): throws on a socket that is still connecting,
              \* transmits on an open one, discards on a closing or closed one
              [Event("sendMessage") EXCEPT
                  !.handed = TRUE,
                  !.sent = (websocket.readyState = "OPEN"),
                  !.result = IF websocket.readyState = "CONNECTING"
                             THEN "InvalidStateError" ELSE "ok"]
    /\ UNCHANGED << serviceVars, orphans, timers, mounted, scheduled, kexVars, callVars, uiVars >>

\* onMessage(type, handler)
OnMessage(type, handler) ==
    /\ messageHandlers' = MapSet(messageHandlers, type, handler)
    /\ event' = [Event("onMessage") EXCEPT !.type = type, !.handler = handler]
    /\ UNCHANGED << websocket, isConnected, reconnectAttempts, reconnectDelay,
                    orphans, timers, mounted, scheduled, kexVars, callVars, uiVars >>

\* offMessage(type)
OffMessage(type) ==
    /\ messageHandlers' = MapDelete(messageHandlers, type)
    /\ event' = [Event("offMessage") EXCEPT !.type = type]
    /\ UNCHANGED << websocket, isConnected, reconnectAttempts, reconnectDelay,
                    orphans, timers, mounted, scheduled, kexVars, callVars, uiVars >>

\* the four fields that make up the connection state of the service
ConnectionState == << isConnected, websocket, reconnectAttempts, reconnectDelay >>

\* websocket.onmessage of an open socket, for a frame that parses: the
\* whole of handleMessage(message)
HandleMessage(frame, behaviour) ==
    /\ \E ref \in SocketRefs : ref[2].readyState = "OPEN"
    /\ LET r == handleMessage(messageHandlers, frame, behaviour)
       IN  /\ messageHandlers' = r.table
           /\ event' = [Event("message") EXCEPT
                            !.frame = frame, !.table = messageHandlers,
                            !.invoked = r.invoked, !.caught = r.caught,
                            !.mutated = r.mutated, !.before = ConnectionState,
                            !.previous = << event.op, event.type, event.handler >>]
    /\ UNCHANGED << websocket, isConnected, reconnectAttempts, reconnectDelay,
                    orphans, timers, mounted, scheduled, kexVars, callVars, uiVars >>

\* registration, inbound frames and the connection they arrive on
DispatchNext ==
    \/ Connect
    \/ \E ref \in SocketRefs : SocketOpen(ref)
    \/ \E type \in DispatchKeys, handler \in ClientHandlers : OnMessage(type, handler)
    \/ \E type \in DispatchKeys : OffMessage(type)
    \/ \E frame \in DispatchKeys, behaviour \in Behaviours : HandleMessage(frame, behaviour)

\* the channel while its owner never calls disconnect() and the server
\* accepts every connection attempt: no socket fails while connecting
AcceptingNext ==
    \/ Connect
    \/ SendMessage
    \/ \E i \in 1..MaxSockets : ReconnectTimerFire(i)
    \/ \E ref \in SocketRefs : SocketOpen(ref)
    \/ \E ref \in SocketRefs, code \in InvoluntaryCloseCodes : SocketClose(ref, code)
    \/ \E ref \in SocketRefs : ConnectTimeout(ref)
    \/ OnMessage("all", "auditHandler")
    \/ OffMessage("all")

ChatNext ==
    \/ Connect
    \/ Disconnect
    \/ SendMessage
    \/ \E i \in 1..MaxSockets : ReconnectTimerFire(i)
    \/ \E ref \in SocketRefs : SocketOpen(ref)
    \/ \E ref \in SocketRefs : SocketFail(ref)
    \/ \E ref \in SocketRefs, code \in InvoluntaryCloseCodes : SocketClose(ref, code)
    \/ \E ref \in SocketRefs : ConnectTimeout(ref)
    \/ OnMessage("all", "auditHandler")
    \/ OffMessage("all")

\* ------------------------------------------------------------------------
\* App.js : the CallInterface component
\* ------------------------------------------------------------------------

Contacts == {"alice", "bob"}

CallTypes == {"audio", "video"}

\* the demo history the mount effect installs
DemoHistory ==
    << [ contactId |-> "alice", type |-> "outgoing", callType |-> "video",
         duration |-> 245, status |-> "completed" ],
       [ contactId |-> "bob", type |-> "incoming", callType |-> "audio",
         duration |-> 128, status |-> "completed" ],
       [ contactId |-> "charlie", type |-> "missed", callType |-> "audio",
         duration |-> 0, status |-> "missed" ] >>

\* the state of the component, as one value
UiState ==
    [ callHistory |-> callHistory, activeCall |-> activeCall, callTimer |-> callTimer,
      isMuted |-> isMuted, isVideoOn |-> isVideoOn ]

\* initiateCall(contactId, callType), applied to state s
initiateCall(contactId, callType, s) ==
    [ s EXCEPT
        !.activeCall = [ contactId |-> contactId, callType |-> callType ],
        !.callHistory = << [ contactId |-> contactId, type |-> "outgoing",
                             callType |-> callType, duration |-> 0,
                             status |-> "active" ] >> \o @ ]

\* mutant: endCall closes the history entries whether or not a call is active
endCallUnguarded(render, s) ==
    [ callHistory |-> [ i \in 1..Len(s.callHistory) |->
                          [ s.callHistory[i] EXCEPT !.duration = render.callTimer,
                                                    !.status = "completed" ] ],
      activeCall  |-> None,
      callTimer   |-> 0,
      isMuted     |-> FALSE,
      isVideoOn   |-> TRUE ]

\* endCall(), run in the render that saw state render, applied to state s
\* (activeCall and callTimer are read from the render, the history updater
\* is applied to the current history)
endCall(render, s) ==
    [ callHistory |-> IF render.activeCall # None
                      THEN [ i \in 1..Len(s.callHistory) |->
                               IF s.callHistory[i].status = "active"
                               THEN [ s.callHistory[i] EXCEPT
                                        !.duration = render.callTimer,
                                        !.status = "completed" ]
                               ELSE s.callHistory[i] ]
                      ELSE s.callHistory,
      activeCall  |-> None,
      callTimer   |-> 0,
      isMuted     |-> FALSE,
      isVideoOn   |-> TRUE ]

UiInit ==
    /\ callHistory = DemoHistory
    /\ activeCall = None
    /\ callTimer = 0
    /\ isMuted = FALSE
    /\ isVideoOn = TRUE
    /\ uiEvent = [ op |-> "init", before |-> None ]

\* the component moves to state s by operation op
UiStep(op, s) ==
    /\ callHistory' = s.callHistory
    /\ activeCall' = s.activeCall
    /\ callTimer' = s.callTimer
    /\ isMuted' = s.isMuted
    /\ isVideoOn' = s.isVideoOn
    /\ uiEvent' = [ op |-> op, before |-> UiState ]
    /\ UNCHANGED << kexVars, callVars, chatVars >>

\* a click on an audio or video call button
UiInitiateCall ==
    /\ Len(callHistory) < Len(DemoHistory) + MaxCalls
    /\ \E c \in Contacts, k \in CallTypes :
           UiStep("initiateCall", initiateCall(c, k, UiState))

\* the interval of the call timer effect, running while a call is active
UiTimerTick ==
    /\ activeCall # None
    /\ callTimer < MaxTimer
    /\ UiStep("tick", [UiState EXCEPT !.callTimer = @ + 1])

\* the mute and camera buttons of the call dialog
UiToggleMute ==
    /\ activeCall # None
    /\ UiStep("mute", [UiState EXCEPT !.isMuted = ~@])

UiToggleVideo ==
    /\ activeCall # None
    /\ activeCall.callType = "video"
    /\ UiStep("video", [UiState EXCEPT !.isVideoOn = ~@])

\* endCall(): the hang-up button, or any other caller
UiEndCall == UiStep("endCall", endCall(UiState, UiState))

UiNext ==
    \/ UiInitiateCall
    \/ UiTimerTick
    \/ UiToggleMute
    \/ UiToggleVideo
    \/ UiEndCall

Init == KexInit /\ CallInit /\ ChatInit /\ UiInit

SpecKex == Init /\ [][KexNext]_vars

SpecMalformed == Init /\ [][MalformedNext]_vars

SpecUi == Init /\ [][UiNext]_vars

SpecCall == Init /\ [][CallNext]_vars

Spec == Init /\ [][ChatNext]_vars

SpecDispatch == Init /\ [][DispatchNext]_vars

\* a timer that was set fires, and a connecting socket the server accepts
\* opens
SpecAccepting ==
    /\ Init
    /\ [][AcceptingNext]_vars
    /\ WF_vars(\E i \in 1..MaxSockets : ReconnectTimerFire(i))
    /\ WF_vars(\E ref \in SocketRefs : SocketOpen(ref))

\* ------------------------------------------------------------------------
\* C1: round trip of the key exchange: decapsulateHybridKey(E, B) returns
\* the session_key that encapsulateHybridKey computed in E
\* ------------------------------------------------------------------------
C1_RoundTrip == decapKey # None => decapKey.key = encap.session_key

\* ------------------------------------------------------------------------
\* C2: in a handshake with in-order delivery and no failure, whenever both
\* sessions are ESTABLISHED their derived session keys are equal
\* ------------------------------------------------------------------------
C2_EstablishedKeysEqual ==
    (/\ iSession # None /\ rSession # None
     /\ iSession.state = "ESTABLISHED" /\ rSession.state = "ESTABLISHED")
        => iSession.derivedSessionKey = rSession.derivedSessionKey

\* ------------------------------------------------------------------------
\* Properties of the chat channel
\* ------------------------------------------------------------------------

\* every socket connect() created that is not closed, with multiplicity
SocketBag == orphans (+) (IF Live(websocket) THEN One(websocket) ELSE EmptyBag)

\* number of those sockets that are open
NumOpen ==
    LET open == { o \in BagToSet(SocketBag) : o.readyState = "OPEN" }
    IN  IF open = {} THEN 0
        ELSE BagCardinality([ o \in open |-> CopiesIn(o, SocketBag) ])

\* number of connection attempts in flight: the socket has neither opened
\* nor failed and the promise of its connect() is not settled
NumPendingAttempts ==
    LET pending == { o \in BagToSet(SocketBag) :
                       o.readyState = "CONNECTING" /\ o.promise = "pending" }
    IN  IF pending = {} THEN 0
        ELSE BagCardinality([ o \in pending |-> CopiesIn(o, SocketBag) ])

\* reconnectAttempts before the last step, when that step was a close event
\* or a timeout (only attemptReconnect, inside a close event, changes it)
AttemptsBefore == reconnectAttempts - (IF event.reconnect THEN 1 ELSE 0)

BackoffSequence == << 1000, 2000, 4000, 8000, 16000 >>

\* C3: the delays of the reconnects scheduled since the last successful open
\* (or since construction) are 1000, 2000, 4000, 8000, 16000 ms, in that
\* order, and there are never more than five of them
C3_BackoffSequence ==
    /\ Len(scheduled) <= Len(BackoffSequence)
    /\ \A i \in 1..Len(scheduled) : scheduled[i] = BackoffSequence[i]

\* five consecutive attempts have ended in an involuntary close
C3_Witness ==
    /\ event.op = "close"
    /\ ~event.voluntary
    /\ scheduled = BackoffSequence

\* C4: when a connect() started by a reconnect timer is rejected while
\* reconnectAttempts is 5, the close event schedules no further reconnect
\* and connection_error is delivered to every handler registered under
\* 'connection_error' or 'all'
C4_ExhaustionNotifies ==
    (/\ event.op \in {"close", "timeout"}
     /\ event.rejected
     /\ event.origin = "reconnect"
     /\ AttemptsBefore = maxReconnectAttempts)
        => /\ ~event.reconnect
           /\ event.notified = ConnectionErrorHandlers(messageHandlers)

\* the fifth reconnect failed with a 'connection_error' and an 'all' handler
\* registered
C4_Witness ==
    /\ event.op = "close"
    /\ event.rejected
    /\ event.origin = "reconnect"
    /\ reconnectAttempts = maxReconnectAttempts
    /\ Len(scheduled) = 5
    /\ Len(event.notified) = 2

\* C5: at most one socket created by the channel is open
C5_AtMostOneOpenSocket == NumOpen <= 1

\* C6: a reconnect timer that was pending when disconnect() was called
\* never calls connect()
C6_DisconnectCancelsTimer == ~(event.op = "reconnect_timer" /\ event.stale)

\* C7: at most one connection attempt is pending
C7_OneAttemptInFlight == NumPendingAttempts <= 1

\* C8: the close event of a socket that disconnect() closed leaves the
\* channel disconnected and does not call attemptReconnect
C8_VoluntaryCloseNoReconnect ==
    (event.op = "close" /\ event.voluntary)
        => (~isConnected /\ ~event.reconnect)

\* C9: a close event that disconnect() did not ask for, whatever its code,
\* with reconnectAttempts below the maximum, leaves the channel disconnected
\* and schedules a reconnect
C9_InvoluntaryCloseReconnects ==
    (/\ event.op = "close"
     /\ ~event.voluntary
     /\ AttemptsBefore < maxReconnectAttempts)
        => (~isConnected /\ event.reconnect)

C11_ConnectSettlesByTimeout ==
    \A o \in BagToSet(SocketBag) : ~o.timeout => o.promise # "pending"

\* the last step was the rejection of a reconnect with the budget exhausted:
\* the catch of attemptReconnect reported 'Max reconnection attempts reached'
BudgetExhaustedEvent ==
    /\ event.op \in {"close", "timeout"}
    /\ event.rejected
    /\ event.origin = "reconnect"
    /\ AttemptsBefore = maxReconnectAttempts

\* C12: once a reconnect has failed with the attempt budget exhausted, the
\* service starts no further attempt on its own: the step that follows is
\* never a reconnect timer calling connect() and creating a socket
C12_NoAttemptAfterExhaustion ==
    [][ BudgetExhaustedEvent => event'.op # "reconnect_timer" ]_vars

\* ------------------------------------------------------------------------
\* Properties of the handshake requests
\* ------------------------------------------------------------------------

\* the session keys computed so far, by either side
DerivedKeys ==
    (IF encap # None THEN {encap.session_key} ELSE {})
      \cup (IF encap2 # None THEN {encap2.session_key} ELSE {})
      \cup (IF decapKey # None THEN {decapKey.key} ELSE {})

\* the fields of a request body that carry key material (the signature is
\* the constant placeholder)
MaterialFields(body) == DOMAIN body \ {"signature"}

\* C13: no request sent carries a session key in any field, and the
\* ciphertext request consists of the PQ ciphertext, the ephemeral classical
\* public key and the signature, nothing else
C13_NoSessionKeyOnWire ==
    \A i \in 1..Len(requests) :
        LET body == requests[i].body IN
        /\ body.signature = "placeholder_signature"
        /\ \A f \in MaterialFields(body) : body[f] \notin DerivedKeys
        /\ requests[i].type = "ciphertext" =>
              /\ DOMAIN body = {"pqc_ciphertext", "classic_key_share", "signature"}
              /\ body.pqc_ciphertext = encap.kyber_ciphertext
              /\ body.classic_key_share = encap.x25519_public_key

\* both requests were sent and both sides have computed their session key
C13_Witness ==
    /\ Sent("public_key")
    /\ Sent("ciphertext")
    /\ decapKey # None

\* C14: the public-key request consists of the PQ public key, the classical
\* public key and the signature; no request carries the PQ secret key of
\* the key pair, and none carries its classical private key (where that
\* key differs from the classical public value the request has to carry)
C14_NoPrivateHalvesOnWire ==
    \A i \in 1..Len(requests) :
        LET body == requests[i].body IN
        /\ requests[i].type = "public_key" =>
              /\ DOMAIN body = {"pqc_pub_key", "classic_pub_key", "signature"}
              /\ body.pqc_pub_key = keyPair.kyber_public_key
              /\ body.classic_pub_key = keyPair.x25519_public_key
              /\ body.pqc_pub_key \notin {keyPair.x25519_private_key, keyPair.kyber_secret_key}
              /\ keyPair.x25519_private_key # keyPair.x25519_public_key =>
                     body.classic_pub_key # keyPair.x25519_private_key
              /\ keyPair.kyber_secret_key # keyPair.x25519_public_key =>
                     body.classic_pub_key # keyPair.kyber_secret_key
        /\ requests[i].type = "ciphertext" =>
              /\ body.pqc_ciphertext \notin {keyPair.x25519_private_key, keyPair.kyber_secret_key}
              /\ keyPair.x25519_private_key # encap.x25519_public_key =>
                     body.classic_key_share # keyPair.x25519_private_key
              /\ keyPair.kyber_secret_key # encap.x25519_public_key =>
                     body.classic_key_share # keyPair.kyber_secret_key

\* the public-key request of a key pair whose private halves differ from
\* its classical public key was sent
C14_Witness ==
    /\ Sent("public_key")
    /\ keyPair.x25519_private_key # keyPair.x25519_public_key
    /\ keyPair.kyber_secret_key # keyPair.x25519_public_key

\* ------------------------------------------------------------------------
\* Properties of the primitives on malformed input, and freshness
\* ------------------------------------------------------------------------

\* C15: decapsulateHybridKey on encapsulated data whose PQ ciphertext is
\* empty, or whose auth tag does not match the ciphertext, raises an error
\* and returns no session key
C15_MalformedCiphertextRejected ==
    decapBad # None => /\ "error" \in DOMAIN decapBad.outcome
                       /\ "key" \notin DOMAIN decapBad.outcome

\* C16: encapsulateHybridKey on malformed remote public keys (all-zero or
\* wrong-length classical key, missing PQ key) raises an error and returns
\* no encapsulation result
C16_MalformedPublicKeyRejected ==
    encapBad # None => /\ "error" \in DOMAIN encapBad.outcome
                       /\ "value" \notin DOMAIN encapBad.outcome

\* C17: two calls of encapsulateHybridKey with the same remote public keys,
\* each with its own fresh ephemeral key, return different PQ ciphertexts
\* and different session keys
C17_EncapsulationFresh ==
    (/\ encap # None
     /\ encap2 # None
     /\ encap.x25519_public_key # encap2.x25519_public_key)
        => /\ encap.kyber_ciphertext # encap2.kyber_ciphertext
           /\ encap.session_key # encap2.session_key

\* ------------------------------------------------------------------------
\* Properties of the call screen
\* ------------------------------------------------------------------------

\* C20: endCall is idempotent: called when no call is active (the call was
\* already ended) it leaves the state as it was, and applying it a second
\* time, from the same render or from the next one, changes nothing more
C20_EndCallIdempotent ==
    /\ (uiEvent.op = "endCall" /\ uiEvent.before.activeCall = None)
          => UiState = uiEvent.before
    /\ LET once == endCall(UiState, UiState) IN
          /\ endCall(UiState, once) = once
          /\ endCall(once, once) = once

\* endCall was called again after it had ended a call that had lasted a
\* second or more
C20_Witness ==
    /\ uiEvent.op = "endCall"
    /\ uiEvent.before.activeCall = None
    /\ Len(callHistory) > Len(DemoHistory)
    /\ callHistory[1].status = "completed"
    /\ callHistory[1].duration > 0

\* the calls of the history that are not in a terminal state, for a contact
ActiveCallsOf(contact) ==
    { i \in 1..Len(callHistory) :
        callHistory[i].contactId = contact /\ callHistory[i].status = "active" }

\* C21: at most one call of a contact is not in a terminal state; starting
\* a new call to a contact ends the call to that contact that was active
C21_OneActiveCallPerContact ==
    \A c \in Contacts : Cardinality(ActiveCallsOf(c)) <= 1

\* ------------------------------------------------------------------------
\* Properties of the dispatch of inbound frames
\* ------------------------------------------------------------------------

\* the entries of a table a frame matches: its own type and 'all'
MatchingEntries(handlers, frame) ==
    { handlers[i] : i \in { j \in 1..Len(handlers) :
                              handlers[j].type \in {frame, "all"} } }

Range(s) == { s[i] : i \in 1..Len(s) }

NoDuplicates(s) == \A i, j \in 1..Len(s) : s[i] = s[j] => i = j

\* a frame was dispatched and no callback touched the table meanwhile
PlainDispatch == event.op = "message" /\ ~event.mutated

\* ------------------------------------------------------------------------
\* C22: for an inbound frame of type T, dispatch invokes exactly the handler
\* registered under T (if any) and the handler registered under 'all' (if
\* any), each once, and no other handler (for dispatches during which no
\* callback registers or unregisters handlers)
\* ------------------------------------------------------------------------
C22_DispatchExactlyMatching ==
    PlainDispatch =>
        /\ Range(event.invoked) = MatchingEntries(event.table, event.frame)
        /\ NoDuplicates(event.invoked)

\* a frame whose type has a handler was dispatched while 'all' had one too,
\* and a third key was left out
C22_Witness ==
    /\ PlainDispatch
    /\ Len(event.invoked) = 2
    /\ Len(event.table) > 2
    /\ event.caught = << >>

\* ------------------------------------------------------------------------
\* C23: when a handler throws during dispatch the exception is caught,
\* every other matching handler is still invoked, and the connection state
\* (isConnected, socket, reconnectAttempts, reconnectDelay) is unchanged
\* ------------------------------------------------------------------------
C23_ThrowingHandlerIsolated ==
    (PlainDispatch /\ event.caught # << >>) =>
        /\ Range(event.invoked) = MatchingEntries(event.table, event.frame)
        /\ ConnectionState = event.before

\* the first of two matching handlers threw and the second still ran
C23_Witness ==
    /\ PlainDispatch
    /\ Len(event.invoked) = 2
    /\ event.caught = << event.invoked[1] >>

\* ------------------------------------------------------------------------
\* C24: the table holds at most one handler per type: after onMessage(T,h1)
\* and onMessage(T,h2) a frame of type T invokes h2 and never h1, and after
\* offMessage(T) it invokes neither
\* ------------------------------------------------------------------------
C24_LastRegistrationWins ==
    /\ \A i, j \in 1..Len(messageHandlers) :
          messageHandlers[i].type = messageHandlers[j].type => i = j
    /\ (PlainDispatch /\ event.previous[1] = "onMessage"
            /\ event.previous[2] = event.frame) =>
          \A e \in Range(event.invoked) :
              e.type = event.frame => e.handler = event.previous[3]
    /\ (PlainDispatch /\ event.previous[1] = "onMessage"
            /\ event.previous[2] = event.frame) =>
          \E e \in Range(event.invoked) :
              e.type = event.frame /\ e.handler = event.previous[3]
    /\ (PlainDispatch /\ event.previous[1] = "offMessage") =>
          \A e \in Range(event.invoked) : e.type # event.previous[2]

\* a frame of type T is dispatched right after T, which had a handler, was
\* given another one by onMessage
C24_Witness ==
    /\ PlainDispatch
    /\ event.previous[1] = "onMessage"
    /\ event.previous[2] = event.frame
    /\ event.previous[2] # "all"
    /\ \E e \in Range(event.invoked) :
          e.type = event.frame /\ e.handler = "onceHandler"
    /\ \E e \in Range(event.invoked) : e.type = "all"

\* ------------------------------------------------------------------------
\* C25: when a handler registers or unregisters handlers while a frame is
\* being dispatched, no handler that was registered and matched the frame
\* when the dispatch began is skipped
\* ------------------------------------------------------------------------
C25_MutationSkipsNoHandler ==
    (event.op = "message" /\ event.mutated) =>
        MatchingEntries(event.table, event.frame) \subseteq Range(event.invoked)

\* ------------------------------------------------------------------------
\* C26: reconnectAttempts is set to 0 only by a successful open, which also
\* resets reconnectDelay to 1000; no other operation lowers either of them
\* ------------------------------------------------------------------------
C26_OnlyOpenResets ==
    [][ /\ (reconnectAttempts' < reconnectAttempts \/ reconnectDelay' < reconnectDelay)
            => event'.op = "open"
        /\ event'.op = "open"
            => (reconnectAttempts' = 0 /\ reconnectDelay' = BaseReconnectDelay) ]_vars

\* an open has just reset the counters after reconnects were scheduled
C26_Witness ==
    /\ event.op = "open"
    /\ event.origin = "reconnect"
    /\ reconnectAttempts = 0
    /\ reconnectDelay = BaseReconnectDelay

\* ------------------------------------------------------------------------
\* C27: when isConnected is true, the socket the service references is
\* non-null and open
\* ------------------------------------------------------------------------
C27_ConnectedMeansOpenSocket ==
    isConnected => (websocket # NoSocket /\ websocket.readyState = "OPEN")

\* ------------------------------------------------------------------------
\* C28: once a connect() call has been rejected (by an error or by the
\* timeout), the socket of that call never afterwards makes the channel
\* connected
\* ------------------------------------------------------------------------
C28_RejectedSocketNeverConnects ==
    ~(event.op = "open" /\ event.result = "rejected" /\ isConnected)

\* ------------------------------------------------------------------------
\* C29: 0 <= reconnectAttempts <= maxReconnectAttempts and
\* reconnectDelay = min(1000 * 2^reconnectAttempts, 30000)
\* ------------------------------------------------------------------------
RECURSIVE Pow2(_)
Pow2(n) == IF n = 0 THEN 1 ELSE 2 * Pow2(n - 1)

C29_AttemptsAndDelayCoupled ==
    /\ reconnectAttempts \in 0..maxReconnectAttempts
    /\ reconnectDelay = Min(BaseReconnectDelay * Pow2(reconnectAttempts), MaxReconnectDelay)

\* the budget is used up and the delay sits at its ceiling
C29_Witness ==
    /\ reconnectAttempts = maxReconnectAttempts
    /\ reconnectDelay = MaxReconnectDelay

\* ------------------------------------------------------------------------
\* C30: when the connection is lost involuntarily while reconnectAttempts is
\* below the maximum, disconnect() is never called and the server accepts
\* every connection attempt, the channel eventually is connected again with
\* reconnectAttempts = 0
\* ------------------------------------------------------------------------
C30_EventuallyReconnected ==
    (/\ event.op = "close"
     /\ ~event.voluntary
     /\ AttemptsBefore < maxReconnectAttempts)
        ~> (isConnected /\ reconnectAttempts = 0)

====
